---- MODULE Spec2Model ----
(***************************************************************************)
(* snuffles: the message bus, the orchestrator's routing loop, the agent   *)
(* execution loop (think -> act -> observe) and the proactive triggers.    *)
(*                                                                         *)
(* Everything runs on one asyncio event loop: a task runs without          *)
(* interruption until it awaits something that really suspends.  The       *)
(* suspension points modelled are Queue.get on the inbound channel, the    *)
(* model-backend call, tool.execute and asyncio.sleep.  Queue.put on an    *)
(* unbounded asyncio.Queue never suspends, so send() and reply() are part  *)
(* of the step that calls them.                                            *)
(*                                                                         *)
(* Text is a tuple of fragments (the pieces of an f-string); "" is <<>>.   *)
(* Timestamps, the stdout/JSONL output of EventLog.record and the          *)
(* truncated copies of text stored in event data are left out.             *)
(***************************************************************************)
EXTENDS Integers, Sequences, FiniteSets, TLC

VARIABLES
    inbound,        \* Bus._inbound
    outbound,       \* Bus._outbound
    subscribers,    \* Bus._subscribers: list of queues
    agents,         \* Orchestrator.agents: name -> Agent
    triggers,       \* Orchestrator._triggers: list of trigger objects
    trigger_tasks,  \* run(): indices of the triggers whose task run() created
    o_running,      \* Orchestrator._running
    opc,            \* where Orchestrator.run is
    message,        \* run(): the local `message`
    loop,           \* the locals of the run_loop invocation in flight
    events,         \* EventLog.events
    file,           \* the watched path: exists, mtime
    hist            \* history of the calls made, for stating properties

vars == <<inbound, outbound, subscribers, agents, triggers, trigger_tasks,
          o_running, opc, message, loop, events, file, hist>>

(***************************************************************************)
(* Bounds                                                                  *)
(***************************************************************************)
MaxInbound == 2
MaxReplies == 3
MaxSubscribers == 2
MaxTriggers == 2
MaxMtime == 2
MaxWrites == 2
MaxIterations == 2

(***************************************************************************)
(* message.py                                                              *)
(***************************************************************************)
Message(sender, to, content) ==
    [sender |-> sender, to |-> to, content |-> content]

Event(kind, agent, data) ==
    [kind |-> kind, agent |-> agent, data |-> data]

None == <<"None">>

NoMessage == Message("", "", <<>>)

(***************************************************************************)
(* bus.py                                                                  *)
(***************************************************************************)
QueuePut(q, item) == Append(q, item)

QueueGetNewest(q) == q[Len(q)]

QueueGetItem(q) == Head(q)

QueueGetRest(q) == Tail(q)

\* Bus.send: the inbound channel after send(m)
BusSend(inb, m) == QueuePut(inb, m)

ReplyFanOutFirstOnly(subs, m) ==
    [i \in DOMAIN subs |-> IF i = 1 THEN QueuePut(subs[i], m) ELSE subs[i]]

\* Bus.reply: the subscriber channels after reply(m)
ReplyFanOut(subs, m) == [i \in DOMAIN subs |-> QueuePut(subs[i], m)]

\* Bus.reply: the outbound channel after reply(m)
ReplyOutbound(outb, m) == QueuePut(outb, m)

\* Bus.subscribe: the subscriber list after subscribe()
BusSubscribe(subs) == Append(subs, <<>>)

(***************************************************************************)
(* agent.py                                                                *)
(* An Agent is [name, instructions, tools, max_iterations]; a Tool is its  *)
(* name (what execute does is chosen by the environment).  `model` plays   *)
(* no part in the control flow and is left out.                            *)
(***************************************************************************)
Agent(name, instructions, tools, max_iterations) ==
    [name |-> name, instructions |-> instructions, tools |-> tools,
     max_iterations |-> max_iterations]

NoAgent == Agent("", <<>>, <<>>, 0)

get_tool_ignoring_name(agent, name) == IF agent.tools /= <<>> THEN 1 ELSE 0

\* Agent.get_tool: the index of the first tool with that name, 0 for None
get_tool(agent, name) ==
    IF \E i \in DOMAIN agent.tools : agent.tools[i] = name
    THEN CHOOSE i \in DOMAIN agent.tools :
            /\ agent.tools[i] = name
            /\ \A j \in DOMAIN agent.tools : agent.tools[j] = name => i <= j
    ELSE 0

(***************************************************************************)
(* llm.py                                                                  *)
(***************************************************************************)
ToolCallRec(id, name, arguments) ==
    [id |-> id, name |-> name, arguments |-> arguments]

\* LLMResponse; fails = TRUE stands for chat_completion raising
LLMResponse(content, tool_calls) ==
    [fails |-> FALSE, content |-> content, tool_calls |-> tool_calls]

BackendFailure == [fails |-> TRUE, content |-> None, tool_calls |-> <<>>]

\* LLMResponse.to_message_dict
to_message_dict(response) ==
    IF response.tool_calls /= <<>>
    THEN [role |-> "assistant", content |-> response.content,
          tool_calls |-> response.tool_calls]
    ELSE [role |-> "assistant", content |-> response.content]

\* `response.content or ""`
OrEmpty(content) == IF content = None THEN <<>> ELSE content

\* json.loads(tool_call.function.arguments) succeeds and gives keyword arguments
ArgumentsParse(arguments) == arguments = "{}"

(***************************************************************************)
(* loop.py: run_loop                                                       *)
(* loop.pc: "idle" no invocation; "llm" awaiting chat_completion; "act" at *)
(* the head of `for tool_call in response.tool_calls`; "tool" awaiting     *)
(* tool.execute; "returned" / "raised" the invocation is over.             *)
(* n_llm, n_exec and n_entries count the chat_completion calls, the        *)
(* execute calls and the tool-invocation entries received.                 *)
(***************************************************************************)
IdleLoop ==
    [pc |-> "idle", agent |-> NoAgent, trigger_message |-> NoMessage,
     messages |-> <<>>, iteration |-> 0, tool_calls |-> <<>>, tc |-> 0,
     ret |-> NoMessage, n_llm |-> 0, n_exec |-> 0, n_entries |-> 0]

LimitContent == <<"I reached my iteration limit.">>

FinalMessageToTarget(l, response) ==
    Message(l.agent.name, l.trigger_message.to, OrEmpty(response.content))

\* what run_loop returns on its normal exit
FinalMessage(l, response) ==
    Message(l.agent.name, l.trigger_message.sender, OrEmpty(response.content))

LimitMessageToTarget(l) ==
    Message(l.agent.name, l.trigger_message.to, LimitContent)

\* what run_loop returns after the for statement is exhausted
LimitMessage(l) ==
    Message(l.agent.name, l.trigger_message.sender, LimitContent)

HasNextIterationOffByOne(l) == l.iteration <= l.agent.max_iterations

\* `for iteration in range(1, agent.max_iterations + 1)` has another value
HasNextIteration(l) == l.iteration + 1 <= l.agent.max_iterations

\* a for statement whose llm_call would carry a 0-based index
ForNextCountingFromZero(l, ev) ==
    IF HasNextIteration(l)
    THEN [l |-> [l EXCEPT !.iteration = @ + 1, !.pc = "llm", !.n_llm = @ + 1,
                          !.tool_calls = <<>>, !.tc = 0],
          ev |-> Append(ev, Event("llm_call", l.agent.name,
                     [iteration |-> l.iteration,
                      message_count |-> Len(l.messages)]))]
    ELSE [l |-> [l EXCEPT !.pc = "returned", !.ret = LimitMessage(l),
                          !.tool_calls = <<>>, !.tc = 0],
          ev |-> Append(ev, Event("loop_max_iterations", l.agent.name,
                     [iterations |-> l.agent.max_iterations]))]

\* the for statement takes its next value (and THINK records llm_call and
\* calls the backend), or is exhausted (loop_max_iterations, return)
ForNext(l, ev) ==
    IF HasNextIteration(l)
    THEN [l |-> [l EXCEPT !.iteration = @ + 1, !.pc = "llm", !.n_llm = @ + 1,
                          !.tool_calls = <<>>, !.tc = 0],
          ev |-> Append(ev, Event("llm_call", l.agent.name,
                     [iteration |-> l.iteration + 1,
                      message_count |-> Len(l.messages)]))]
    ELSE [l |-> [l EXCEPT !.pc = "returned", !.ret = LimitMessage(l),
                          !.tool_calls = <<>>, !.tc = 0],
          ev |-> Append(ev, Event("loop_max_iterations", l.agent.name,
                     [iterations |-> l.agent.max_iterations]))]

\* run_loop up to its first suspension
RunLoopEnter(agent, trigger_message, ev) ==
    ForNext([IdleLoop EXCEPT
                !.agent = agent,
                !.trigger_message = trigger_message,
                !.messages = <<[role |-> "system", content |-> agent.instructions],
                               [role |-> "user", content |-> trigger_message.content]>>],
            Append(ev, Event("loop_start", agent.name,
                             [trigger |-> trigger_message.content])))

\* the response carries no tool invocation
IsFinal(response) == response.tool_calls = <<>>

\* chat_completion returns `response` or raises
LLMReturn(response) ==
    /\ loop.pc = "llm"
    /\ IF response.fails
       THEN /\ loop' = [loop EXCEPT !.pc = "raised"]
            /\ events' = events
       ELSE IF IsFinal(response)
       THEN /\ events' = Append(events, Event("llm_response", loop.agent.name,
                                    [content |-> OrEmpty(response.content)]))
            /\ loop' = [loop EXCEPT !.pc = "returned",
                                    !.ret = FinalMessage(loop, response)]
       ELSE /\ events' = events
            /\ loop' = [loop EXCEPT
                          !.messages = Append(@, to_message_dict(response)),
                          !.tool_calls = response.tool_calls,
                          !.tc = 1,
                          !.n_entries = @ + Len(response.tool_calls),
                          !.pc = "act"]

UnknownToolResult(name) == <<"Error: unknown tool '", name, "'">>

ErrorResultBare(e) == <<e>>

\* f"Error: {e}"
ErrorResult(e) == <<"Error: ", e>>

\* an OBSERVE that would file every result under the first invocation's id
ObserveUnderFirstId(l, ev, result) ==
    LET tool_call == l.tool_calls[l.tc]
        ev1 == Append(ev, Event("tool_result", l.agent.name,
                   [tool |-> tool_call.name, result |-> result,
                    iteration |-> l.iteration]))
        l1 == [l EXCEPT !.messages = Append(@,
                   [role |-> "tool", tool_call_id |-> l.tool_calls[1].id,
                    content |-> result])]
    IN  IF l.tc < Len(l.tool_calls)
        THEN [l |-> [l1 EXCEPT !.tc = @ + 1, !.pc = "act"], ev |-> ev1]
        ELSE ForNext(l1, ev1)

\* OBSERVE: tool_result is recorded, the tool-role item appended, and the
\* inner for statement moves on; after the last invocation the outer one does
Observe(l, ev, result) ==
    LET tool_call == l.tool_calls[l.tc]
        ev1 == Append(ev, Event("tool_result", l.agent.name,
                   [tool |-> tool_call.name, result |-> result,
                    iteration |-> l.iteration]))
        l1 == [l EXCEPT !.messages = Append(@,
                   [role |-> "tool", tool_call_id |-> tool_call.id,
                    content |-> result])]
    IN  IF l.tc < Len(l.tool_calls)
        THEN [l |-> [l1 EXCEPT !.tc = @ + 1, !.pc = "act"], ev |-> ev1]
        ELSE ForNext(l1, ev1)

\* ACT for one invocation, up to tool.execute
ToolCall ==
    /\ loop.pc = "act"
    /\ LET tool_call == loop.tool_calls[loop.tc]
           tool == get_tool(loop.agent, tool_call.name)
           ev1 == Append(events, Event("tool_call", loop.agent.name,
                      [tool |-> tool_call.name, args |-> tool_call.arguments,
                       iteration |-> loop.iteration]))
       IN  IF tool = 0
           THEN LET r == Observe(loop, ev1, UnknownToolResult(tool_call.name))
                IN  loop' = r.l /\ events' = r.ev
           ELSE IF ~ArgumentsParse(tool_call.arguments)
           THEN LET r == Observe(loop, ev1, ErrorResult("JSONDecodeError"))
                IN  loop' = r.l /\ events' = r.ev
           ELSE /\ loop' = [loop EXCEPT !.pc = "tool", !.n_exec = @ + 1]
                /\ events' = ev1

\* what the try statement leaves in `result` when execute returns or raises
ExecuteResult(outcome) ==
    IF outcome.ok THEN outcome.text ELSE ErrorResult(outcome.text)

\* tool.execute returns its text or raises
ToolReturn(outcome) ==
    /\ loop.pc = "tool"
    /\ LET r == Observe(loop, events, ExecuteResult(outcome))
       IN  loop' = r.l /\ events' = r.ev

(***************************************************************************)
(* What the backend and the tools may answer.  The backend is external:    *)
(* it may name any tool, give malformed arguments, or fail; it returns     *)
(* tool invocations only when the request offered tools (run_loop passes   *)
(* tools=None for an agent without tools, and llm.py then sends none).     *)
(***************************************************************************)
RequestedCalls == {<<"search", "{}">>, <<"search", "{bad">>, <<"nope", "{}">>}

\* how many tool invocations one response may carry
ToolCallCounts == {1, 2}

ToolCallLists(calls, counts) ==
    UNION {[1..k -> calls] : k \in counts}

\* positions serve as invocation ids, unique within one response
AsToolCalls(f) ==
    [i \in DOMAIN f |-> ToolCallRec(i, f[i][1], f[i][2])]

TextResponses == {LLMResponse(None, <<>>), LLMResponse(<<"done">>, <<>>)}

ToolResponses(calls, counts) ==
    {LLMResponse(None, AsToolCalls(f)) : f \in ToolCallLists(calls, counts)}

\* what chat_completion may answer to a request of `agent`
Responses(agent, calls, counts) ==
    TextResponses \cup {BackendFailure}
        \cup (IF agent.tools /= <<>> THEN ToolResponses(calls, counts) ELSE {})

ToolOutcomes == {[ok |-> TRUE, text |-> <<"found">>], [ok |-> FALSE, text |-> "boom"]}

(***************************************************************************)
(* run_loop called directly, one invocation after the other, each with a   *)
(* fresh EventLog                                                          *)
(***************************************************************************)
LoopAgents ==
    {Agent("a", <<"be brief">>, tools, n) :
        tools \in {<<>>, <<"search">>}, n \in 1..MaxIterations}

LoopTriggers == {Message(s, "a", <<"hi">>) : s \in {"user", "b"}}

LoopOver == loop.pc \in {"idle", "returned", "raised"}

Invoke(agent, trigger_message) ==
    /\ LoopOver
    /\ LET r == RunLoopEnter(agent, trigger_message, <<>>)
       IN  loop' = r.l /\ events' = r.ev

LoopFrame ==
    UNCHANGED <<inbound, outbound, subscribers, agents, triggers, trigger_tasks,
                o_running, opc, message, file, hist>>

NextLoop ==
    \/ \E a \in LoopAgents, m \in LoopTriggers : Invoke(a, m) /\ LoopFrame
    \/ \E r \in Responses(loop.agent, RequestedCalls, ToolCallCounts) : LLMReturn(r) /\ LoopFrame
    \/ ToolCall /\ LoopFrame
    \/ \E o \in ToolOutcomes : ToolReturn(o) /\ LoopFrame

\* sent, received, replied, taken, sub_taken: the messages that went through
\* send, receive, reply, next_reply and the subscriber queues; sub_from: how
\* many replies preceded each subscribe; turns: one record per message
\* received; reg_at_send: for each message sent, the agent registered under
\* its `to` when it was sent; calls: the stop() and cancel() calls of the
\* finally clause, in order; writes: the modification times written;
\* stopped_in: where run() was when stop() was called; last_added: the
\* agent of the latest add_agent call
InitHist ==
    [sent |-> <<>>, received |-> <<>>, replied |-> <<>>, taken |-> <<>>,
     sub_from |-> <<>>, sub_taken |-> <<>>, turns |-> <<>>,
     reg_at_send |-> <<>>, calls |-> <<>>, writes |-> <<>>, stopped_in |-> "",
     last_added |-> NoAgent]

InitIdle ==
    /\ inbound = <<>>
    /\ outbound = <<>>
    /\ subscribers = <<>>
    /\ agents = [n \in {} |-> NoAgent]
    /\ triggers = <<>>
    /\ trigger_tasks = {}
    /\ o_running = FALSE
    /\ opc = "idle"
    /\ message = NoMessage
    /\ loop = IdleLoop
    /\ events = <<>>
    /\ file = [exists |-> FALSE, mtime |-> 0, version |-> 0]
    /\ hist = InitHist

SpecLoop == InitIdle /\ [][NextLoop]_vars

(***************************************************************************)
(* trigger.py                                                              *)
(* A trigger object is [kind, agent_name, running, last_mtime, pc]; pc is  *)
(* where its start() task is: "new" no task; "ready" task created, not    *)
(* yet run; "sleep" in asyncio.sleep; "done" start() returned;             *)
(* "cancelled" the task was cancelled.  cycle is the parity of the number  *)
(* of sleeps the trigger has completed.  The file is [exists, mtime,       *)
(* version], version counting the writes; seen is the version a file       *)
(* watcher found at its last poll.                                         *)
(***************************************************************************)
TimerTrigger(agent_name) ==
    [kind |-> "timer", agent_name |-> agent_name, running |-> FALSE,
     last_mtime |-> 0, pc |-> "new", cycle |-> 0, seen |-> 0]

FileWatchTrigger(agent_name) ==
    [kind |-> "file_watch", agent_name |-> agent_name, running |-> FALSE,
     last_mtime |-> 0, pc |-> "new", cycle |-> 0, seen |-> 0]

TimerMessage(t) == Message("timer", t.agent_name, <<"Check if there is anything.">>)

FileMessage(t) ==
    Message("file_watch", t.agent_name, <<"File changed: ", "notes.txt">>)

TimerFiresAlways(t) == TRUE

\* TimerTrigger.start: `if self._running` after the sleep
TimerFires(t) == t.running

FileFiresNotOlder(t, f) == t.running /\ f.exists /\ f.mtime >= t.last_mtime

\* FileWatchTrigger.start: the two conditions after the sleep
FileFires(t, f) == t.running /\ f.exists /\ f.mtime > t.last_mtime

\* the trigger sends when its sleep is over
Fires(t, f) ==
    IF t.kind = "timer" THEN TimerFires(t) ELSE FileFires(t, f)

FiredMessage(t) ==
    IF t.kind = "timer" THEN TimerMessage(t) ELSE FileMessage(t)

\* the trigger object after the step that follows a sleep: _last_mtime is
\* updated on a file_watch send, then `while self._running` is tested
AfterSleep(t, f) ==
    [t EXCEPT !.last_mtime = IF t.kind = "file_watch" /\ FileFires(t, f)
                             THEN f.mtime ELSE @,
              !.pc = IF t.running THEN "sleep" ELSE "done",
              !.cycle = 1 - @,
              !.seen = IF t.kind = "file_watch" THEN f.version ELSE @]

\* asyncio.create_task(t.start(bus)): the task exists and has not run yet
TaskCreated(t) == [t EXCEPT !.pc = "ready"]

\* stop()
TriggerStopped(t) == [t EXCEPT !.running = FALSE]

\* task.cancel() on the trigger's task
TaskCancelled(t) ==
    [t EXCEPT !.pc = IF @ \in {"ready", "sleep"} THEN "cancelled" ELSE @]

(***************************************************************************)
(* orchestrator.py                                                         *)
(* opc: "idle" run() not called; "receive" in bus.receive(); "loop" in     *)
(* run_loop; "exited" run() returned; "failed" run() raised.               *)
(***************************************************************************)
\* the other tasks run only while Orchestrator.run is suspended or not running
Suspended ==
    \/ opc \in {"idle", "receive", "exited", "failed"}
    \/ opc = "loop" /\ loop.pc \in {"llm", "tool"}

ReceivingWhileLooping == opc \in {"receive", "loop"}

\* run() is in `message = await self.bus.receive()`
AwaitingReceive == opc = "receive"

\* an add_agent that would keep the agent already registered under the name
RegisteredFirstWins(reg, agent) ==
    [n \in DOMAIN reg \cup {agent.name} |-> IF n \in DOMAIN reg THEN reg[n] ELSE agent]

\* add_agent: self.agents[agent.name] = agent
Registered(reg, agent) ==
    [n \in DOMAIN reg \cup {agent.name} |-> IF n = agent.name THEN agent ELSE reg[n]]

\* self.agents.get(name) is not None
IsRegistered(reg, name) == name \in DOMAIN reg

NoAgentNamed(to) == <<"No agent named '", to, "'">>

SystemReplyToTarget(m) == Message("system", m.to, NoAgentNamed(m.to))

SystemReply(m) == Message("system", m.sender, NoAgentNamed(m.to))

ForwardToAnyAgent(reg, response, m) == IsRegistered(reg, response.to)

\* the condition under which run() re-sends the response
ShouldForward(reg, response, m) ==
    IsRegistered(reg, response.to) /\ response.to /= m.sender

\* a finally clause that would leave after the first trigger
TeardownFirstOnly(trigs, tasks) ==
    [i \in DOMAIN trigs |->
        IF i > 1 THEN trigs[i]
        ELSE IF i \in tasks THEN TaskCancelled(TriggerStopped(trigs[i]))
        ELSE TriggerStopped(trigs[i])]

\* the finally clause: every trigger stopped, every task of this run cancelled
Teardown(trigs, tasks) ==
    [i \in DOMAIN trigs |->
        IF i \in tasks THEN TaskCancelled(TriggerStopped(trigs[i]))
        ELSE TriggerStopped(trigs[i])]

\* the calls the finally clause makes, in order: stop() on every trigger of
\* self._triggers, then cancel() on every task of trigger_tasks (the tasks
\* of the triggers 1..n registered when run() began)
TeardownCalls(trigs, tasks) ==
    [i \in 1..Len(trigs) |-> <<"stop", i>>]
        \o [i \in 1..Cardinality(tasks) |-> <<"cancel", i>>]

StillRunningForever(running) == TRUE

\* `while self._running` tested again
StillRunning(running) == running

\* the agent registered under `name`, NoAgent for none
AgentNamed(reg, name) == IF name \in DOMAIN reg THEN reg[name] ELSE NoAgent

\* the agents a program registers: two under the same name, one under another
AgentPool ==
    {Agent("a", <<"be brief">>, <<>>, 1),
     Agent("a", <<"be terse">>, <<>>, 1),
     Agent("b", <<"be kind">>, <<>>, 1)}

CallerMessages ==
    {Message("user", "a", <<"hi">>), Message("b", "a", <<"hi">>),
     Message("user", "b", <<"hi">>), Message("user", "zz", <<"hi">>)}

TriggerPool == {TimerTrigger("a"), FileWatchTrigger("b")}

BusFrame == UNCHANGED <<inbound, outbound, subscribers>>
OrchFrame == UNCHANGED <<agents, triggers, trigger_tasks, o_running, opc, message>>
LoopVarsFrame == UNCHANGED <<loop, events>>

AddAgent(agent) ==
    /\ Suspended
    /\ agents' = Registered(agents, agent)
    /\ hist' = [hist EXCEPT !.last_added = agent]
    /\ UNCHANGED <<inbound, outbound, subscribers, triggers, trigger_tasks,
                   o_running, opc, message, loop, events, file>>

\* an add_trigger that would start the trigger when run() is under way
AddTriggerStartsLate(t) ==
    /\ Suspended
    /\ Len(triggers) < MaxTriggers
    /\ IF opc \in {"receive", "loop"}
       THEN /\ triggers' = Append(triggers, TaskCreated(t))
            /\ trigger_tasks' = trigger_tasks \cup {Len(triggers) + 1}
       ELSE /\ triggers' = Append(triggers, t)
            /\ UNCHANGED trigger_tasks
    /\ UNCHANGED <<inbound, outbound, subscribers, agents,
                   o_running, opc, message, loop, events, file, hist>>

AddTrigger(t) ==
    /\ Suspended
    /\ Len(triggers) < MaxTriggers
    /\ triggers' = Append(triggers, t)
    /\ UNCHANGED <<inbound, outbound, subscribers, agents, trigger_tasks,
                   o_running, opc, message, loop, events, file, hist>>

\* a direct caller: bus.send(m)
Send(m) ==
    /\ Suspended
    /\ Len(hist.sent) < MaxInbound
    /\ inbound' = BusSend(inbound, m)
    /\ hist' = [hist EXCEPT !.sent = Append(@, m),
                            !.reg_at_send = Append(@, AgentNamed(agents, m.to))]
    /\ UNCHANGED <<outbound, subscribers, file>>
    /\ OrchFrame /\ LoopVarsFrame

\* a direct caller: bus.reply(m)
Reply(m) ==
    /\ Suspended
    /\ Len(hist.replied) < MaxReplies
    /\ outbound' = ReplyOutbound(outbound, m)
    /\ subscribers' = ReplyFanOut(subscribers, m)
    /\ hist' = [hist EXCEPT !.replied = Append(@, m)]
    /\ UNCHANGED <<inbound, file>>
    /\ OrchFrame /\ LoopVarsFrame

\* bus.subscribe()
Subscribe ==
    /\ Suspended
    /\ Len(subscribers) < MaxSubscribers
    /\ subscribers' = BusSubscribe(subscribers)
    /\ hist' = [hist EXCEPT !.sub_from = Append(@, Len(hist.replied)),
                            !.sub_taken = Append(@, <<>>)]
    /\ UNCHANGED <<inbound, outbound, file>>
    /\ OrchFrame /\ LoopVarsFrame

\* bus.next_reply() by a consumer
NextReply ==
    /\ Suspended
    /\ outbound /= <<>>
    /\ outbound' = QueueGetRest(outbound)
    /\ hist' = [hist EXCEPT !.taken = Append(@, QueueGetItem(outbound))]
    /\ UNCHANGED <<inbound, subscribers, file>>
    /\ OrchFrame /\ LoopVarsFrame

\* an observer takes from its subscriber channel
SubscriberGet(i) ==
    /\ Suspended
    /\ subscribers[i] /= <<>>
    /\ subscribers' = [subscribers EXCEPT ![i] = QueueGetRest(@)]
    /\ hist' = [hist EXCEPT !.sub_taken[i] = Append(@, QueueGetItem(subscribers[i]))]
    /\ UNCHANGED <<inbound, outbound, file>>
    /\ OrchFrame /\ LoopVarsFrame

\* the watched file is written (its modification time set) or removed
WriteFile(mtime) ==
    /\ Suspended
    /\ Len(hist.writes) < MaxWrites
    /\ file' = [exists |-> TRUE, mtime |-> mtime, version |-> file.version + 1]
    /\ hist' = [hist EXCEPT !.writes = Append(@, mtime)]
    /\ BusFrame /\ OrchFrame /\ LoopVarsFrame

RemoveFile ==
    /\ Suspended
    /\ file.exists
    /\ file' = [file EXCEPT !.exists = FALSE]
    /\ UNCHANGED hist
    /\ BusFrame /\ OrchFrame /\ LoopVarsFrame

\* the trigger's task runs for the first time: start() up to its first sleep
TriggerStart(i) ==
    /\ Suspended
    /\ triggers[i].pc = "ready"
    /\ triggers' = [triggers EXCEPT ![i] = [@ EXCEPT !.running = TRUE, !.pc = "sleep"]]
    /\ UNCHANGED <<inbound, outbound, subscribers, agents, trigger_tasks,
                   o_running, opc, message, loop, events, file, hist>>

\* the trigger's sleep is over: start() up to its next sleep or its return
TriggerWake(i) ==
    /\ Suspended
    /\ triggers[i].pc = "sleep"
    /\ LET t == triggers[i]
       IN  /\ triggers' = [triggers EXCEPT ![i] = AfterSleep(t, file)]
           /\ IF Fires(t, file)
              THEN /\ Len(hist.sent) < MaxInbound
                   /\ inbound' = BusSend(inbound, FiredMessage(t))
                   /\ hist' = [hist EXCEPT
                         !.sent = Append(@, FiredMessage(t)),
                         !.reg_at_send = Append(@, AgentNamed(agents, t.agent_name))]
              ELSE UNCHANGED <<inbound, hist>>
    /\ UNCHANGED <<outbound, subscribers, agents, trigger_tasks,
                   o_running, opc, message, loop, events, file>>

\* somebody calls stop() on the trigger
TriggerStop(i) ==
    /\ Suspended
    /\ triggers[i].running
    /\ triggers' = [triggers EXCEPT ![i] = TriggerStopped(@)]
    /\ UNCHANGED <<inbound, outbound, subscribers, agents, trigger_tasks,
                   o_running, opc, message, loop, events, file, hist>>

\* a stop() that would cancel the turn in flight
OrchStopCancelsTurn ==
    /\ Suspended
    /\ o_running
    /\ o_running' = FALSE
    /\ hist' = [hist EXCEPT !.stopped_in = opc]
    /\ IF opc = "loop"
       THEN /\ opc' = "exited"
            /\ loop' = [loop EXCEPT !.pc = "idle"]
            /\ triggers' = Teardown(triggers, trigger_tasks)
       ELSE UNCHANGED <<opc, loop, triggers>>
    /\ UNCHANGED <<inbound, outbound, subscribers, agents, trigger_tasks,
                   message, events, file>>

\* Orchestrator.stop()
OrchStop ==
    /\ Suspended
    /\ o_running
    /\ o_running' = FALSE
    /\ hist' = [hist EXCEPT !.stopped_in = opc]
    /\ UNCHANGED <<inbound, outbound, subscribers, agents, triggers, trigger_tasks,
                   opc, message, loop, events, file>>

\* run() up to its first receive(): one task per registered trigger
OrchRun ==
    /\ opc = "idle"
    /\ o_running' = TRUE
    /\ trigger_tasks' = DOMAIN triggers
    /\ triggers' = [i \in DOMAIN triggers |-> TaskCreated(triggers[i])]
    /\ opc' = "receive"
    /\ UNCHANGED <<inbound, outbound, subscribers, agents, message, loop, events,
                   file, hist>>

\* the calls made so far, with those of the finally clause when run() leaves
ExitCalls(calls) ==
    IF StillRunning(o_running) THEN calls
    ELSE calls \o TeardownCalls(triggers, trigger_tasks)

\* the end of one pass of the while statement: the flag is tested, and run()
\* either waits in receive() again or leaves through the finally clause
EndOfPass ==
    IF StillRunning(o_running)
    THEN opc' = "receive" /\ UNCHANGED triggers
    ELSE opc' = "exited" /\ triggers' = Teardown(triggers, trigger_tasks)

\* receive() returns: message_routed, the registry lookup, and either the
\* reply for an unknown name or run_loop up to its first suspension
OrchReceive ==
    /\ AwaitingReceive
    /\ inbound /= <<>>
    /\ LET m == QueueGetItem(inbound)
           ev1 == Append(events, Event("message_routed", "",
                             [from |-> m.sender, to |-> m.to]))
       IN  /\ message' = m
           /\ inbound' = QueueGetRest(inbound)
           /\ IF ~IsRegistered(agents, m.to)
              THEN /\ outbound' = ReplyOutbound(outbound, SystemReply(m))
                   /\ subscribers' = ReplyFanOut(subscribers, SystemReply(m))
                   /\ events' = ev1
                   /\ loop' = loop
                   /\ hist' = [hist EXCEPT
                         !.received = Append(@, m),
                         !.replied = Append(@, SystemReply(m)),
                         !.turns = Append(@, [message |-> m, agent |-> "",
                                     published |-> <<SystemReply(m)>>,
                                     resent |-> <<>>, over |-> TRUE,
                                     sent_before |-> Len(hist.sent)]),
                         !.calls = ExitCalls(@)]
                   /\ EndOfPass
              ELSE /\ LET r == RunLoopEnter(agents[m.to], m, ev1)
                       IN  loop' = r.l /\ events' = r.ev
                   /\ hist' = [hist EXCEPT
                         !.received = Append(@, m),
                         !.turns = Append(@, [message |-> m, agent |-> m.to,
                                     published |-> <<>>, resent |-> <<>>,
                                     over |-> FALSE,
                                     sent_before |-> Len(hist.sent)])]
                   /\ opc' = "loop"
                   /\ UNCHANGED <<outbound, subscribers, triggers>>
    /\ UNCHANGED <<agents, trigger_tasks, o_running, file>>

\* an `if response` that would take a response without content for nothing
ResponseHasContent(response) == response.content /= <<>>

\* `if response:` a Message (a dataclass instance) is always true
ResponseIsTrue(response) == TRUE

\* run_loop returned: reply, the forwarding rule, the end of the pass
OrchAfterLoop ==
    /\ opc = "loop"
    /\ loop.pc = "returned"
    /\ LET response == loop.ret
           replies == ResponseIsTrue(response)
           forward == replies /\ ShouldForward(agents, response, message)
       IN  /\ outbound' = IF replies THEN ReplyOutbound(outbound, response) ELSE outbound
           /\ subscribers' = IF replies THEN ReplyFanOut(subscribers, response)
                             ELSE subscribers
           /\ inbound' = IF forward THEN BusSend(inbound, response) ELSE inbound
           /\ hist' = [hist EXCEPT
                 !.replied = IF replies THEN Append(@, response) ELSE @,
                 !.sent = IF forward THEN Append(@, response) ELSE @,
                 !.reg_at_send = IF forward
                                 THEN Append(@, AgentNamed(agents, response.to))
                                 ELSE @,
                 !.calls = ExitCalls(@),
                 !.turns[Len(hist.turns)] =
                     [@ EXCEPT !.published = IF replies THEN <<response>> ELSE <<>>,
                               !.resent = IF forward THEN <<response>> ELSE <<>>,
                               !.over = TRUE]]
    /\ loop' = [loop EXCEPT !.pc = "idle"]
    /\ EndOfPass
    /\ UNCHANGED <<agents, trigger_tasks, o_running, message, events, file>>

\* a run() that would catch the exception and go on with the next pass
OrchLoopRaisedRecovered ==
    /\ opc = "loop"
    /\ loop.pc = "raised"
    /\ loop' = [loop EXCEPT !.pc = "idle"]
    /\ hist' = [hist EXCEPT
          !.turns[Len(hist.turns)] = [@ EXCEPT !.over = TRUE],
          !.calls = ExitCalls(@)]
    /\ EndOfPass
    /\ UNCHANGED <<inbound, outbound, subscribers, agents, trigger_tasks,
                   o_running, message, events, file>>

\* run_loop raised: the exception leaves run() through the finally clause
OrchLoopRaised ==
    /\ opc = "loop"
    /\ loop.pc = "raised"
    /\ opc' = "failed"
    /\ triggers' = Teardown(triggers, trigger_tasks)
    /\ loop' = [loop EXCEPT !.pc = "idle"]
    /\ hist' = [hist EXCEPT
          !.turns[Len(hist.turns)] = [@ EXCEPT !.over = TRUE],
          !.calls = @ \o TeardownCalls(triggers, trigger_tasks)]
    /\ UNCHANGED <<inbound, outbound, subscribers, agents, trigger_tasks,
                   o_running, message, events, file>>

SysFrame ==
    UNCHANGED <<inbound, outbound, subscribers, agents, triggers, trigger_tasks,
                o_running, opc, message, file, hist>>

InLoop == opc = "loop"

(***************************************************************************)
(* The routing loop at work: the program has registered its agents and a   *)
(* timer before run() (as the examples do); callers and the timer send.    *)
(***************************************************************************)
SetupAgents ==
    Registered(Registered([n \in {} |-> NoAgent],
                          Agent("a", <<"be brief">>, <<"search">>, 2)),
               Agent("b", <<"be kind">>, <<>>, 1))

Init ==
    /\ inbound = <<>>
    /\ outbound = <<>>
    /\ subscribers = <<>>
    /\ agents = SetupAgents
    /\ triggers = <<TimerTrigger("a")>>
    /\ trigger_tasks = {}
    /\ o_running = FALSE
    /\ opc = "idle"
    /\ message = NoMessage
    /\ loop = IdleLoop
    /\ events = <<>>
    /\ file = [exists |-> FALSE, mtime |-> 0, version |-> 0]
    /\ hist = InitHist

Next ==
    \/ \E m \in CallerMessages : Send(m)
    \/ \E i \in DOMAIN triggers : TriggerStart(i)
    \/ \E i \in DOMAIN triggers : TriggerWake(i)
    \/ OrchStop
    \/ OrchRun
    \/ OrchReceive
    \/ InLoop /\ (\E r \in Responses(loop.agent, {<<"search", "{}">>}, {1}) : LLMReturn(r)) /\ SysFrame
    \/ InLoop /\ ToolCall /\ SysFrame
    \/ InLoop /\ (\E o \in ToolOutcomes : ToolReturn(o)) /\ SysFrame
    \/ OrchAfterLoop
    \/ OrchLoopRaised

Spec == Init /\ [][Next]_vars

(***************************************************************************)
(* The Bus used directly: callers reply, observers subscribe and take      *)
(***************************************************************************)
ReplyMessages ==
    {Message("a", "user", <<"done">>), Message("system", "user", NoAgentNamed("zz"))}

NextBus ==
    \/ \E m \in ReplyMessages : Reply(m)
    \/ Subscribe
    \/ NextReply
    \/ \E i \in DOMAIN subscribers : SubscriberGet(i)

SpecBus == InitIdle /\ [][NextBus]_vars

(***************************************************************************)
(* The routing loop with callers only (no trigger registered, as in the    *)
(* single-agent and two-agent examples), somebody calling stop().  The     *)
(* event loop runs a task that is ready, and the backend and the tools     *)
(* answer: the steps of run() and of run_loop are weakly fair.  Nobody is  *)
(* obliged to send.                                                        *)
(***************************************************************************)
InitNoTriggers ==
    /\ inbound = <<>>
    /\ outbound = <<>>
    /\ subscribers = <<>>
    /\ agents = SetupAgents
    /\ triggers = <<>>
    /\ trigger_tasks = {}
    /\ o_running = FALSE
    /\ opc = "idle"
    /\ message = NoMessage
    /\ loop = IdleLoop
    /\ events = <<>>
    /\ file = [exists |-> FALSE, mtime |-> 0, version |-> 0]
    /\ hist = InitHist

RunSteps ==
    \/ OrchReceive
    \/ InLoop /\ (\E r \in Responses(loop.agent, {<<"search", "{}">>}, {1}) : LLMReturn(r)) /\ SysFrame
    \/ InLoop /\ ToolCall /\ SysFrame
    \/ InLoop /\ (\E o \in ToolOutcomes : ToolReturn(o)) /\ SysFrame
    \/ OrchAfterLoop
    \/ OrchLoopRaised

\* what the callers send: to a registered agent and to an unknown name
StopCallerMessages ==
    {Message("user", "a", <<"hi">>), Message("user", "zz", <<"hi">>)}

NextStop ==
    \/ \E m \in StopCallerMessages : Send(m)
    \/ OrchStop
    \/ OrchRun
    \/ RunSteps

SpecStop == InitNoTriggers /\ [][NextStop]_vars /\ WF_vars(RunSteps)

(***************************************************************************)
(* The proactive program: triggers are registered (before run() or later), *)
(* run() starts one task per trigger registered so far, the triggers send, *)
(* somebody calls stop() or the backend fails.  One agent, b, is           *)
(* registered; the watched file exists.                                    *)
(***************************************************************************)
ProactiveAgents ==
    Registered([n \in {} |-> NoAgent], Agent("b", <<"be kind">>, <<>>, 1))

InitProactive ==
    /\ inbound = <<>>
    /\ outbound = <<>>
    /\ subscribers = <<>>
    /\ agents = ProactiveAgents
    /\ triggers = <<>>
    /\ trigger_tasks = {}
    /\ o_running = FALSE
    /\ opc = "idle"
    /\ message = NoMessage
    /\ loop = IdleLoop
    /\ events = <<>>
    /\ file = [exists |-> TRUE, mtime |-> 1, version |-> 0]
    /\ hist = InitHist

NextProactive ==
    \/ \E t \in TriggerPool : AddTrigger(t)
    \/ \E i \in DOMAIN triggers : TriggerStart(i)
    \/ \E i \in DOMAIN triggers : TriggerWake(i)
    \/ OrchStop
    \/ OrchRun
    \/ OrchReceive
    \/ InLoop /\ (\E r \in Responses(loop.agent, {}, {}) : LLMReturn(r)) /\ SysFrame
    \/ OrchAfterLoop
    \/ OrchLoopRaised

SpecProactive == InitProactive /\ [][NextProactive]_vars

(***************************************************************************)
(* The triggers on their own: a program creates a task for the start() of  *)
(* a timer and of a file watcher on a bus, writes and removes the watched  *)
(* file, and calls stop() on the triggers.                                 *)
(***************************************************************************)
InitTriggers ==
    /\ inbound = <<>>
    /\ outbound = <<>>
    /\ subscribers = <<>>
    /\ agents = [n \in {} |-> NoAgent]
    /\ triggers = <<TaskCreated(TimerTrigger("a")), TaskCreated(FileWatchTrigger("b"))>>
    /\ trigger_tasks = {}
    /\ o_running = FALSE
    /\ opc = "idle"
    /\ message = NoMessage
    /\ loop = IdleLoop
    /\ events = <<>>
    /\ file = [exists |-> FALSE, mtime |-> 0, version |-> 0]
    /\ hist = InitHist

NextTriggers ==
    \/ \E i \in DOMAIN triggers : TriggerStart(i)
    \/ \E i \in DOMAIN triggers : TriggerWake(i)
    \/ \E i \in DOMAIN triggers : TriggerStop(i)
    \/ \E mtime \in 1..MaxMtime : WriteFile(mtime)
    \/ RemoveFile

SpecTriggers == InitTriggers /\ [][NextTriggers]_vars

(***************************************************************************)
(* The registry at work: add_agent is called before run() and while run()  *)
(* is suspended, possibly again under a name already taken; callers send.  *)
(***************************************************************************)
RegistryCallerMessages ==
    {Message("user", "a", <<"hi">>), Message("user", "b", <<"hi">>)}

NextRegistry ==
    \/ \E agent \in AgentPool : AddAgent(agent)
    \/ \E m \in RegistryCallerMessages : Send(m)
    \/ OrchRun
    \/ OrchReceive
    \/ InLoop /\ (\E r \in Responses(loop.agent, {}, {}) : LLMReturn(r)) /\ SysFrame
    \/ OrchAfterLoop
    \/ OrchLoopRaised

SpecRegistry == InitIdle /\ [][NextRegistry]_vars

(***************************************************************************)
(* Properties                                                              *)
(***************************************************************************)
LastTurn == hist.turns[Len(hist.turns)]

\* C1: the inbound channel is exactly-once FIFO: whoever the producers are,
\* the messages received so far followed by those still queued are exactly
\* the messages sent, in enqueue order.
InboundFifoExactlyOnce == hist.sent = hist.received \o inbound

InboundFifoWitness ==
    /\ Len(hist.received) = 2
    /\ hist.received[1].sender = "timer"
    /\ hist.received[2].sender = "user"
    /\ hist.sent = hist.received

\* C2: at most one agent loop is in flight: while run_loop is executing for
\* one inbound message, no step receives another message, starts another
\* turn or changes the trigger message of the loop in flight.
OneLoopInFlight ==
    [][opc = "loop" =>
          /\ hist'.received = hist.received
          /\ Len(hist'.turns) = Len(hist.turns)
          /\ loop'.trigger_message = loop.trigger_message
          /\ message' = message]_vars

OneLoopInFlightWitness ==
    /\ opc = "loop"
    /\ loop.pc = "tool"
    /\ Len(hist.sent) > LastTurn.sent_before
    /\ hist.sent[Len(hist.sent)].sender = "timer"
    /\ inbound /= <<>>

UnknownAgentIsNonFatal ==
    [][hist'.received /= hist.received /\ message'.to \notin DOMAIN agents =>
          /\ outbound' = Append(outbound,
                Message("system", message'.sender,
                        <<"No agent named '", message'.to, "'">>))
          /\ inbound' = Tail(inbound)
          /\ loop' = loop
          /\ Len(events') = Len(events) + 1
          /\ opc' = IF o_running THEN "receive" ELSE "exited"]_vars

UnknownAgentWitness ==
    /\ Len(hist.turns) = 2
    /\ hist.turns[1].agent = ""
    /\ hist.turns[1].message.to = "zz"
    /\ hist.turns[2].agent = "a"
    /\ outbound /= <<>>
    /\ outbound[1].sender = "system"

CountKind(ev, kind) == Cardinality({i \in DOMAIN ev : ev[i].kind = kind})

CountRole(items, role) == Cardinality({i \in DOMAIN items : items[i].role = role})

LoopActive == loop.pc \in {"llm", "act", "tool"}

MostToolCalls == CHOOSE n \in ToolCallCounts : \A k \in ToolCallCounts : k <= n

\* the steps one invocation can still take, at most
Rank(l) ==
    (l.agent.max_iterations - l.iteration) * (2 * MostToolCalls + 2)
      + (IF l.pc = "llm" THEN 2 * MostToolCalls + 1
         ELSE 2 * (Len(l.tool_calls) - l.tc) + (IF l.pc = "act" THEN 2 ELSE 1))

\* C5: one run_loop invocation makes at most max_iterations model calls and
\* then is over: the model calls made equal the iteration index, which
\* never exceeds max_iterations; every step of an invocation in progress
\* ends it or lowers a bound on the steps left; and an invocation starts at
\* iteration 1 with a fresh context whatever the previous one left.
LoopTerminatesWithinBudget ==
    /\ [](loop.n_llm = loop.iteration /\ loop.n_llm <= loop.agent.max_iterations)
    /\ [][LoopActive => (loop'.pc \in {"returned", "raised"} \/ Rank(loop') < Rank(loop))]_vars
    /\ [][LoopOver /\ loop' /= loop =>
            /\ loop'.iteration = 1
            /\ loop'.n_llm = 1
            /\ Len(loop'.messages) = 2]_vars

LoopBudgetWitness ==
    /\ loop.pc = "returned"
    /\ loop.agent.max_iterations = MaxIterations
    /\ loop.n_llm = MaxIterations
    /\ Len(loop.messages) = 2 + 3 * MaxIterations

ToolFreeOneCycle ==
    loop.agent.tools = <<>> =>
        /\ loop.pc \in {"idle", "llm", "returned", "raised"}
        /\ loop.n_llm <= 1
        /\ loop.pc = "returned" =>
              /\ loop.n_llm = 1
              /\ CountKind(events, "llm_call") = 1
              /\ events[Len(events)].kind = "llm_response"
              /\ loop.ret.to = loop.trigger_message.sender
              /\ loop.ret.sender = loop.agent.name

ToolFreeWitness ==
    /\ loop.pc = "returned"
    /\ loop.agent.tools = <<>>
    /\ loop.agent.max_iterations = MaxIterations
    /\ loop.trigger_message.sender = "b"
    /\ loop.ret = Message("a", "b", <<"done">>)

CurrentCall == loop.tool_calls[loop.tc]

LastItem(l) == l.messages[Len(l.messages)]

\* the outer for statement goes on after the last invocation of a response:
\* the next THINK, or the iteration limit when the budget is used up
GoesOn(l1, l2) ==
    IF l1.tc < Len(l1.tool_calls)
    THEN l2.pc = "act" /\ l2.tc = l1.tc + 1 /\ l2.iteration = l1.iteration
    ELSE IF l1.iteration < l1.agent.max_iterations
    THEN l2.pc = "llm" /\ l2.iteration = l1.iteration + 1
    ELSE l2.pc = "returned" /\ l2.ret.content = <<"I reached my iteration limit.">>

\* C8: an invocation of a tool the agent does not have is recoverable: the
\* loop does not raise, executes nothing for it, appends the tool-role item
\* "Error: unknown tool '<name>'" under the invocation's id, and goes on
\* with the remaining invocations and then the next THINK.
UnknownToolRecoverable ==
    [][/\ loop.pc = "act"
       /\ \A i \in DOMAIN loop.agent.tools : loop.agent.tools[i] /= CurrentCall.name
       =>
       /\ loop'.n_exec = loop.n_exec
       /\ loop'.messages = Append(loop.messages,
              [role |-> "tool", tool_call_id |-> CurrentCall.id,
               content |-> <<"Error: unknown tool '", CurrentCall.name, "'">>])
       /\ GoesOn(loop, loop')]_vars

UnknownToolWitness ==
    /\ loop.pc = "llm"
    /\ loop.iteration = 2
    /\ Len(loop.messages) = 5
    /\ loop.messages[4].content = <<"Error: unknown tool '", "nope", "'">>
    /\ loop.messages[5].content = <<"found">>
    /\ loop.n_exec = 1

IsErrorText(text) == Len(text) = 2 /\ text[1] = "Error: "

\* C9: a failure of a known tool is recoverable and not retried: a failure
\* of argument parsing or of execute leaves an "Error: ..." tool-role item
\* under the invocation's id and the loop goes on; a step that ends an
\* execute call appends exactly one tool-role item and calls execute no
\* further time; execute calls never outnumber the invocation entries
\* received.
ToolFailureRecoverable ==
    /\ [](loop.n_exec <= loop.n_entries
          /\ loop.n_exec <= CountKind(events, "tool_call"))
    /\ [][/\ loop.pc = "act"
          /\ \E i \in DOMAIN loop.agent.tools : loop.agent.tools[i] = CurrentCall.name
          /\ CurrentCall.arguments = "{bad"
          =>
          /\ loop'.n_exec = loop.n_exec
          /\ Len(loop'.messages) = Len(loop.messages) + 1
          /\ LastItem(loop').role = "tool"
          /\ LastItem(loop').tool_call_id = CurrentCall.id
          /\ IsErrorText(LastItem(loop').content)
          /\ GoesOn(loop, loop')]_vars
    /\ [][loop.pc = "tool" /\ loop' /= loop =>
          /\ loop'.n_exec = loop.n_exec
          /\ Len(loop'.messages) = Len(loop.messages) + 1
          /\ LastItem(loop').role = "tool"
          /\ LastItem(loop').tool_call_id = CurrentCall.id
          /\ LastItem(loop').content = <<"found">>
                \/ LastItem(loop').content = <<"Error: ", "boom">>
          /\ GoesOn(loop, loop')]_vars

ToolFailureWitness ==
    /\ loop.pc = "returned"
    /\ loop.iteration = 2
    /\ Len(loop.messages) = 5
    /\ loop.messages[4].content = <<"Error: ", "boom">>
    /\ loop.messages[5].content = <<"Error: ", "JSONDecodeError">>
    /\ loop.n_exec = 1
    /\ loop.n_entries = 2
    /\ loop.ret.content = <<"done">>

Replied(from) == SubSeq(hist.replied, from + 1, Len(hist.replied))

\* C10: reply(m) puts m on the outbound channel and on every subscriber
\* channel registered at that moment: the messages taken from outbound
\* followed by those queued there are all the messages replied, in order;
\* for each subscriber the messages it took followed by those queued for it
\* are exactly the messages replied since it subscribed, in order; so a take
\* from one channel removes nothing from another.
ReplyFanOutComplete ==
    /\ hist.replied = hist.taken \o outbound
    /\ Len(subscribers) = Len(hist.sub_from)
    /\ \A i \in DOMAIN subscribers :
          hist.sub_taken[i] \o subscribers[i] = Replied(hist.sub_from[i])

ReplyFanOutWitness ==
    /\ Len(subscribers) = 2
    /\ hist.sub_from[1] = 0
    /\ hist.sub_from[2] = 1
    /\ Len(hist.replied) = 3
    /\ Len(hist.taken) = 3
    /\ Len(subscribers[1]) = 3
    /\ Len(hist.sub_taken[2]) = 1
    /\ Len(subscribers[2]) = 1
    /\ hist.replied[2] /= hist.replied[3]


\* stop() has been called on an Orchestrator whose run() is under way
Stopped == opc \in {"receive", "loop"} /\ ~o_running

RunOver == opc \in {"exited", "failed"}

\* this step ends a pass of the while statement: a turn is over
PassEnds ==
    /\ hist'.turns /= hist.turns
    /\ hist'.turns[Len(hist'.turns)].over

\* C11 as stated: after stop() on a running Orchestrator, whatever the
\* inbound channel holds, run() eventually leaves its routing loop.
StopAlwaysEndsRun == Stopped ~> RunOver

\* C11: after stop() on a running Orchestrator the next test of the flag
\* ends run(): the pass that ends after stop() is the last one, and run()
\* does leave when a turn is in flight or a message is queued; with an
\* empty inbound channel run() stays in receive() until a message arrives.
StopEndsRunAtNextCheck ==
    /\ [][Stopped /\ PassEnds => RunOver']_vars
    /\ [][Stopped /\ opc = "receive" /\ inbound = <<>> => ~RunOver']_vars
    /\ (Stopped /\ (opc = "loop" \/ inbound /= <<>>)) ~> RunOver

StopEndsRunWitness ==
    /\ opc = "exited"
    /\ Len(hist.turns) = 1
    /\ LastTurn.agent = "a"
    /\ LastTurn.published /= <<>>
    /\ inbound /= <<>>

\* C12: a stop() called while an agent loop is in flight does not cut the
\* turn short: the loop goes on to its end, its response is published (and
\* re-sent when the forwarding rule applies) in the step in which run()
\* leaves, and run() receives nothing after that.
StopLetsTurnFinish ==
    /\ [][opc = "loop" /\ ~o_running' =>
            \/ /\ opc' = "loop"
               /\ loop'.pc /= "idle"
               /\ hist'.replied = hist.replied
               /\ hist'.received = hist.received
            \/ /\ loop.pc = "returned"
               /\ opc' = "exited"
               /\ outbound' = Append(outbound, loop.ret)
               /\ hist'.replied = Append(hist.replied, loop.ret)
               /\ inbound' = IF ShouldForward(agents, loop.ret, message)
                             THEN Append(inbound, loop.ret) ELSE inbound
            \/ loop.pc = "raised" /\ opc' = "failed"]_vars
    /\ [][RunOver => RunOver' /\ hist'.received = hist.received]_vars

StopLetsTurnFinishWitness ==
    /\ opc = "exited"
    /\ hist.stopped_in = "loop"
    /\ LastTurn.agent = "a"
    /\ LastTurn.published = <<hist.replied[Len(hist.replied)]>>
    /\ CountKind(events, "tool_result") >= 1
    /\ inbound /= <<>>

\* C13: teardown on every exit path.  When run() has left, by stop() or by
\* an exception, the finally clause has called stop() on every trigger
\* registered by then, in registration order, and then cancel() on every
\* task run() started, in registration order; no such trigger is running
\* and no such task is alive; afterwards no trigger sends another message.
TeardownOnExit ==
    /\ [](~RunOver => hist.calls = <<>>)
    /\ [](RunOver =>
            \E n \in 0..Len(triggers) : \E k \in 0..n :
                /\ trigger_tasks = 1..k
                /\ Len(hist.calls) = n + k
                /\ \A i \in 1..n : hist.calls[i] = <<"stop", i>>
                /\ \A j \in 1..k : hist.calls[n + j] = <<"cancel", j>>
                /\ \A i \in 1..n : ~triggers[i].running
                /\ \A j \in 1..k : triggers[j].pc \in {"cancelled", "done"}
                /\ \A i \in (n + 1)..Len(triggers) : triggers[i].pc = "new")
    /\ [][RunOver => hist'.sent = hist.sent /\ hist'.calls = hist.calls]_vars

TeardownOnExitWitness ==
    /\ opc = "failed"
    /\ Len(triggers) = 2
    /\ trigger_tasks = {1, 2}
    /\ hist.calls = <<<<"stop", 1>>, <<"stop", 2>>, <<"cancel", 1>>, <<"cancel", 2>>>>
    /\ triggers[1].kind = "timer" /\ triggers[2].kind = "file_watch"
    /\ \A i \in 1..2 : triggers[i].pc = "cancelled"
    /\ Len(hist.sent) = 2

\* C14: a backend failure is not recovered.  The exception of the model
\* call leaves run_loop without an event and without a response, and it
\* leaves run(): nothing is published for the message in flight, and the
\* messages still queued are never received by this run.
BackendFailurePropagates ==
    /\ [][loop.pc = "llm" /\ loop'.pc = "raised" =>
            events' = events /\ opc' = opc /\ hist'.replied = hist.replied]_vars
    /\ [][opc = "loop" /\ loop.pc = "raised" =>
            /\ opc' = "failed"
            /\ outbound' = outbound /\ subscribers' = subscribers
            /\ inbound' = inbound
            /\ hist'.replied = hist.replied]_vars
    /\ [](opc = "failed" =>
            /\ LastTurn.over /\ LastTurn.published = <<>>
            /\ Len(hist.replied) = Len(hist.turns) - 1)
    /\ [][opc = "failed" =>
            /\ opc' = "failed"
            /\ hist'.received = hist.received
            /\ hist'.replied = hist.replied]_vars

BackendFailureWitness ==
    /\ opc = "failed"
    /\ Len(hist.turns) = 1
    /\ CountKind(events, "tool_result") >= 1
    /\ events[Len(events)].kind = "llm_call"
    /\ outbound = <<>>
    /\ inbound /= <<>>

\* the step completes a sleep of trigger i
Wakes(i) == triggers'[i].cycle /= triggers[i].cycle

\* the step sends exactly the message m, and nothing else, on the bus
SendsOnly(m) ==
    hist'.sent = Append(hist.sent, m) /\ inbound' = Append(inbound, m)

SendsNothing == hist'.sent = hist.sent /\ inbound' = inbound

SentBy(sender) == {k \in DOMAIN hist.sent : hist.sent[k].sender = sender}

Timers == {i \in DOMAIN triggers : triggers[i].kind = "timer"}

FileWatchers == {i \in DOMAIN triggers : triggers[i].kind = "file_watch"}

\* C15: a TimerTrigger never fires after stop().  A sleep that ends while
\* the running flag is set is followed at once by exactly one message, so
\* the messages sent are as many as such sleeps; a sleep that ends after
\* stop() sends nothing and ends start(); a stopped timer stays stopped,
\* and no timer message is sent by any other step.
TimerNeverFiresAfterStop ==
    /\ [][\A i \in Timers :
            LET t == triggers[i]
            IN  /\ Wakes(i) /\ t.running =>
                      SendsOnly(TimerMessage(t)) /\ triggers'[i].pc = "sleep"
                /\ Wakes(i) /\ ~t.running =>
                      SendsNothing /\ triggers'[i].pc = "done"
                /\ t.pc \in {"sleep", "done"} /\ ~t.running =>
                      ~triggers'[i].running /\ triggers'[i].pc \in {"sleep", "done"}
                /\ t.pc = "done" => triggers'[i] = t]_vars
    /\ [][hist'.sent /= hist.sent /\ hist'.sent[Len(hist'.sent)].sender = "timer"
            => \E i \in Timers : Wakes(i) /\ triggers[i].running]_vars

TimerStoppedWitness ==
    \E i \in Timers :
        /\ triggers[i].pc = "done"
        /\ ~triggers[i].running
        /\ Cardinality(SentBy("timer")) = 1
        /\ Len(hist.sent) < MaxInbound

KindAt(i) == events[i].kind

IsTerminalKind(kind) == kind \in {"llm_response", "loop_max_iterations"}

\* the number of llm_call events among the first i events
LlmCallsUpTo(i) == Cardinality({j \in 1..i : KindAt(j) = "llm_call"})

IsRole(role, item) == item.role = role

IsKind(kind, ev) == ev.kind = kind

\* the assistant items of the context, in order
AssistantItems == SelectSeq(loop.messages, LAMBDA item : IsRole("assistant", item))

ToolItems == SelectSeq(loop.messages, LAMBDA item : IsRole("tool", item))

ToolCallEvents == SelectSeq(events, LAMBDA ev : IsKind("tool_call", ev))

ToolResultEvents == SelectSeq(events, LAMBDA ev : IsKind("tool_result", ev))

\* the position of the last assistant item at or before k, 0 if none
AssistantBefore(k) ==
    LET A == {a \in 1..k : loop.messages[a].role = "assistant"}
    IN  IF A = {} THEN 0 ELSE CHOOSE a \in A : \A b \in A : b <= a

RECURSIVE ContextSizeAt(_)
\* the size of the context at the model call of iteration j
ContextSizeAt(j) ==
    IF j = 1 THEN 2
    ELSE ContextSizeAt(j - 1) + 1 + Len(AssistantItems[j - 1].tool_calls)

\* C18: the context starts as [system, user]; every non-final iteration
\* appends one assistant item and then one tool item per invocation, in
\* invocation order, each with its invocation's id and result; the k-th
\* result is in the context before the (k+1)-th tool starts; llm_call of
\* iteration i reports 2 + the sum over the earlier iterations of
\* (1 + number of invocations).
ContextGrowth ==
    LET msgs == loop.messages
        n == Len(msgs)
        last == AssistantBefore(n)
    IN  loop.pc /= "idle" =>
        /\ n >= 2
        /\ msgs[1] = [role |-> "system", content |-> loop.agent.instructions]
        /\ msgs[2] = [role |-> "user", content |-> loop.trigger_message.content]
        /\ \A k \in 3..n :
              LET a == AssistantBefore(k)
              IN  /\ msgs[k].role \in {"assistant", "tool"}
                  /\ msgs[k].role = "tool" =>
                        /\ a >= 3
                        /\ k - a <= Len(msgs[a].tool_calls)
                        /\ msgs[k].tool_call_id = msgs[a].tool_calls[k - a].id
                  /\ msgs[k].role = "assistant" =>
                        /\ msgs[k].tool_calls /= <<>>
                        /\ k > 3 =>
                              LET b == AssistantBefore(k - 1)
                              IN  k - 1 - b = Len(msgs[b].tool_calls)
        /\ Len(ToolItems) = Len(ToolResultEvents)
        /\ \A j \in 1..Len(ToolItems) :
              ToolItems[j].content = ToolResultEvents[j].data.result
        /\ Len(ToolCallEvents) =
              Len(ToolResultEvents) + (IF loop.pc = "tool" THEN 1 ELSE 0)
        /\ loop.pc \in {"act", "tool"} =>
              /\ last >= 3
              /\ msgs[last].tool_calls = loop.tool_calls
              /\ n - last = loop.tc - 1
        /\ loop.pc = "llm" => last = 0 \/ n - last = Len(msgs[last].tool_calls)
        /\ \A i \in 1..Len(events) :
              KindAt(i) = "llm_call" =>
                  events[i].data.message_count = ContextSizeAt(events[i].data.iteration)

ContextGrowthWitness ==
    /\ loop.pc = "llm"
    /\ loop.iteration = 2
    /\ Len(loop.messages) = 5
    /\ loop.messages[4].tool_call_id = 1 /\ loop.messages[5].tool_call_id = 2
    /\ loop.messages[4].content /= loop.messages[5].content
    /\ events[Len(events)].data.message_count = 5

IsLoopKind(kind) ==
    kind \in {"llm_call", "llm_response", "tool_call", "tool_result", "loop_max_iterations"}

RoutedEvents == SelectSeq(events, LAMBDA ev : IsKind("message_routed", ev))

\* C19: the events of different turns never interleave.  There is exactly
\* one message_routed per message received, in order, and it precedes the
\* loop events of that message: loop_start comes right after the
\* message_routed of its message; from loop_start to the terminal event
\* there are only events of that invocation, and a message_routed is
\* recorded only when no invocation is open.
TurnsDoNotInterleave ==
    /\ Len(RoutedEvents) = Len(hist.received)
    /\ \A k \in 1..Len(RoutedEvents) :
          RoutedEvents[k].data = [from |-> hist.received[k].sender,
                                  to |-> hist.received[k].to]
    /\ \A i \in 1..Len(events) :
          /\ KindAt(i) = "message_routed" =>
                i = 1 \/ KindAt(i - 1) = "message_routed" \/ IsTerminalKind(KindAt(i - 1))
          /\ KindAt(i) = "loop_start" =>
                /\ i > 1
                /\ KindAt(i - 1) = "message_routed"
                /\ events[i - 1].data.to = events[i].agent
          /\ IsLoopKind(KindAt(i)) =>
                /\ i > 1
                /\ KindAt(i - 1) \in {"loop_start", "llm_call", "tool_call", "tool_result"}
                /\ events[i - 1].agent = events[i].agent
    /\ opc = "loop" /\ loop.pc /= "returned" =>
          ~IsTerminalKind(KindAt(Len(events))) /\ KindAt(Len(events)) /= "message_routed"
    /\ opc /= "loop" /\ events /= <<>> /\ opc /= "failed" =>
          IsTerminalKind(KindAt(Len(events))) \/ KindAt(Len(events)) = "message_routed"

TurnsDoNotInterleaveWitness ==
    /\ Len(hist.turns) = 2
    /\ hist.turns[1].agent = "a" /\ hist.turns[2].agent = "a"
    /\ opc = "loop" /\ loop.pc = "tool"
    /\ CountKind(events, "loop_start") = 2
    /\ CountKind(events, "tool_result") >= 1

\* C20: registration is last-write-wins and resolved at routing time.
\* add_agent puts the agent under its name, replacing the one registered
\* there and leaving every other entry as it was; a message is handed to
\* the agent registered under its `to` when it is dequeued (or answered by
\* the system reply if there is none then), whatever was registered when
\* it was sent.
RegistrationLastWriteWins ==
    /\ [](\A n \in DOMAIN agents : agents[n].name = n)
    /\ [](hist.last_added /= NoAgent =>
            /\ hist.last_added.name \in DOMAIN agents
            /\ agents[hist.last_added.name] = hist.last_added)
    /\ [][agents' /= agents =>
            \E agent \in AgentPool :
                /\ DOMAIN agents' = DOMAIN agents \cup {agent.name}
                /\ agents'[agent.name] = agent
                /\ \A n \in DOMAIN agents \ {agent.name} : agents'[n] = agents[n]]_vars
    /\ [][hist'.received /= hist.received =>
            LET m == hist'.received[Len(hist'.received)]
            IN  /\ m = inbound[1]
                /\ agents' = agents
                /\ IF m.to \in DOMAIN agents
                   THEN /\ opc' = "loop"
                        /\ loop'.agent = agents[m.to]
                        /\ loop'.trigger_message = m
                        /\ hist'.replied = hist.replied
                   ELSE /\ loop' = loop
                        /\ hist'.replied = Append(hist.replied, SystemReply(m))]_vars

\* a message sent while one agent was registered under its name is handed
\* to the agent registered there later
RegistrationWitness ==
    /\ opc = "loop"
    /\ Len(hist.received) = 2
    /\ hist.reg_at_send[2] /= NoAgent
    /\ hist.reg_at_send[2] /= loop.agent
    /\ loop.agent = agents[message.to]
    /\ "b" \in DOMAIN agents

\* C21 as stated: an invocation that has recorded loop_start and returned
\* has recorded a loop_end event for its agent.
LoopEndRecorded ==
    loop.pc = "returned" /\ CountKind(events, "loop_start") >= 1 =>
        \E i \in 1..Len(events) :
            KindAt(i) = "loop_end" /\ events[i].agent = loop.agent.name

\* C22 as stated: for every message a timer or a file watcher has sent, a
\* trigger_fired event has been recorded.
TriggerFiredRecorded ==
    CountKind(events, "trigger_fired") =
        Cardinality(SentBy("timer")) + Cardinality(SentBy("file_watch"))

\* C23: add_trigger after run() has started has no effect on that run.  The
\* tasks of a run are those of the triggers registered when it began; a
\* trigger registered later is never started (its start() never runs, it
\* never sleeps), and every message on the bus was sent by a trigger that
\* the run started.
LateTriggerNeverStarted ==
    /\ [](\A i \in DOMAIN triggers \ trigger_tasks :
            /\ triggers[i].pc = "new"
            /\ ~triggers[i].running
            /\ triggers[i].cycle = 0)
    /\ [][opc /= "idle" => trigger_tasks' = trigger_tasks]_vars
    /\ [][Len(triggers') > Len(triggers) =>
            /\ triggers'[Len(triggers')].pc = "new"
            /\ inbound' = inbound
            /\ hist'.sent = hist.sent]_vars
    /\ [][hist'.sent /= hist.sent => \E i \in trigger_tasks : Wakes(i)]_vars

LateTriggerWitness ==
    /\ opc = "receive"
    /\ Len(triggers) = 2
    /\ trigger_tasks = {1}
    /\ triggers[1].kind = "file_watch" /\ triggers[1].pc = "sleep"
    /\ triggers[2].kind = "timer" /\ triggers[2].pc = "new"
    /\ Len(hist.received) = 1
    /\ SentBy("timer") = {}

AnsweredTurns ==
    {k \in DOMAIN hist.turns : hist.turns[k].over /\ ~(k = Len(hist.turns) /\ opc = "failed")}

\* C25: one reply per routed message, in order.  Short of a backend
\* failure every message received is answered by exactly one reply: the
\* k-th reply published answers the k-th message received, is addressed to
\* its sender, and comes from "system" if its `to` was not registered and
\* from the agent named by its `to` otherwise.
OneReplyPerMessage ==
    /\ hist.replied = hist.taken \o outbound
    /\ AnsweredTurns = 1..Len(hist.replied)
    /\ Len(hist.turns) = Len(hist.received)
    /\ \A k \in 1..Len(hist.replied) :
          LET m == hist.received[k]
              r == hist.replied[k]
          IN  /\ hist.turns[k].message = m
              /\ hist.turns[k].published = <<r>>
              /\ r.to = m.sender
              /\ r.sender = IF hist.turns[k].agent = "" THEN "system" ELSE m.to
              /\ hist.turns[k].agent = "" <=> ~IsRegistered(agents, m.to)

\* two messages answered in order: the first by the system, the second by
\* an agent whose response has no content
OneReplyPerMessageWitness ==
    /\ Len(outbound) = 2
    /\ Len(hist.received) = 2
    /\ outbound[1].sender = "system"
    /\ outbound[2].sender = "a" /\ outbound[2].content = <<>>
    /\ opc = "receive"

====
